---- MODULE Spec2Model ----
(***************************************************************************)
(* A model of app.py, the now-playing resolver of album-visualizer:        *)
(* player discovery (list_players), the player poller (player_status,      *)
(* player_metadata), the cover resolver (lastfm_cover, _lastfm_cover and   *)
(* its lru_cache memo) and get_now_playing.                                *)
(*                                                                         *)
(* Python strings are sequences of one-character strings, so that lower(), *)
(* strip(), split(), startswith() and the substring test are computed.     *)
(***************************************************************************)
EXTENDS Integers, Sequences, FiniteSets, TLC

VARIABLES now, apiKey, ttl, cache, env, op, hist

vars == <<now, apiKey, ttl, cache, env, op, hist>>

(***************************************************************************)
(* Bounds of the model.                                                    *)
(***************************************************************************)
MaxPlayers == 3
MaxImages == 2
MaxPolled == 2
MaxTime == 5500

(***************************************************************************)
(* Program constants.                                                      *)
(***************************************************************************)
TTL == 3600
MAXSIZE == 256
MICRO == 1000000
PREFIX_LEN == 7

\* F applied to the value of e, computed once: a local variable of the code
Bind(e, F(_)) == CHOOSE y \in {F(x) : x \in {e}} : TRUE

(***************************************************************************)
(* String primitives of Python used by app.py.                             *)
(***************************************************************************)
UPPER == <<"A","B","C","D","E","F","G","H","I","J","K","L","M",
           "N","O","P","Q","R","S","T","U","V","W","X","Y","Z">>
LOWERCASE == <<"a","b","c","d","e","f","g","h","i","j","k","l","m",
               "n","o","p","q","r","s","t","u","v","w","x","y","z">>

LowerOf == [c \in {UPPER[i] : i \in 1..Len(UPPER)} |->
               LOWERCASE[CHOOSE i \in 1..Len(UPPER) : UPPER[i] = c]]

LowerChar(c) == IF c \in DOMAIN LowerOf THEN LowerOf[c] ELSE c

\* str.lower()
Lower(s0) == Bind(s0, LAMBDA s : [i \in 1..Len(s) |-> LowerChar(s[i])])

WHITESPACE == {" ", "\n", "\t", "\r"}

\* str.strip(): from the first to the last character that is not blank
Strip(s0) ==
    Bind(s0, LAMBDA s :
        IF \A i \in 1..Len(s) : s[i] \in WHITESPACE THEN <<>>
        ELSE SubSeq(s,
                    CHOOSE i \in 1..Len(s) :
                        s[i] \notin WHITESPACE /\ \A j \in 1..(i - 1) : s[j] \in WHITESPACE,
                    CHOOSE i \in 1..Len(s) :
                        s[i] \notin WHITESPACE
                        /\ \A j \in (i + 1)..Len(s) : s[j] \in WHITESPACE))

\* sub in s
Contains(s, sub) ==
    \E i \in 0..(Len(s) - Len(sub)) : SubSeq(s, i + 1, i + Len(sub)) = sub

\* s.startswith(prefix)
StartsWith(s, prefix) ==
    Len(s) >= Len(prefix) /\ SubSeq(s, 1, Len(prefix)) = prefix

\* the k-th least element of the set of integers P
Nth(P, k) == CHOOSE i \in P : Cardinality({j \in P : j < i}) = k - 1

\* s.split(sep) for a one-character separator: the fields between the
\* separators, always at least one field
Split(s0, sep) ==
    Bind(s0, LAMBDA s :
        Bind({0, Len(s) + 1} \cup {i \in 1..Len(s) : s[i] = sep}, LAMBDA cuts :
            [k \in 1..(Cardinality(cuts) - 1) |->
                SubSeq(s, Nth(cuts, k) + 1, Nth(cuts, k + 1) - 1)]))

\* s.splitlines(): no line for the empty string, none after a final newline
SplitLines(s) ==
    IF s = <<>> THEN <<>>
    ELSE IF s[Len(s)] = "\n" THEN Split(SubSeq(s, 1, Len(s) - 1), "\n")
    ELSE Split(s, "\n")

\* sep.join(parts), used to write the outputs of the subprocesses
RECURSIVE Join(_, _)
Join(parts, sep) ==
    IF parts = <<>> THEN <<>>
    ELSE IF Len(parts) = 1 THEN parts[1]
    ELSE parts[1] \o <<sep>> \o Join(Tail(parts), sep)

\* the sequences over S of length at most n
SeqsUpTo(S, n) == UNION {[1..k -> S] : k \in 0..n}

(***************************************************************************)
(* run(cmd): the outcome of the subprocess is an input. A failure (a       *)
(* non-zero exit, a timeout, a missing binary, a decode error) is caught   *)
(* and gives the empty string; otherwise the output is stripped.           *)
(***************************************************************************)
Failed == [ok |-> FALSE, out |-> <<>>]
Output(s) == [ok |-> TRUE, out |-> s]

run(proc) == IF proc.ok THEN Strip(proc.out) ELSE <<>>

(***************************************************************************)
(* POLL_PLAYERS and list_players.                                          *)
(***************************************************************************)
POLL_PLAYERS ==
    << <<"c","h","r","o","m","i","u","m">>,
       <<"c","h","r","o","m","e">>,
       <<"g","o","o","g","l","e","-","c","h","r","o","m","e">>,
       <<"b","r","a","v","e">>,
       <<"v","i","v","a","l","d","i">>,
       <<"f","i","r","e","f","o","x">>,
       <<"s","p","o","t","i","f","y">> >>

\* [p for p in players if name in p.lower()]
MatchesOf(name, players) ==
    SelectSeq(players, LAMBDA p : Bind(Lower(p), LAMBDA low : Contains(low, name)))

\* [p for name in POLL_PLAYERS for p in players if name in p.lower()]
RECURSIVE Ordered(_, _)
Ordered(names, players) ==
    IF names = <<>> THEN <<>>
    ELSE MatchesOf(Head(names), players) \o Ordered(Tail(names), players)

InSeq(x, s) == \E i \in 1..Len(s) : s[i] = x

\* [p for p in players if p not in ordered]
Rest(players, ordered) == SelectSeq(players, LAMBDA p : ~InSeq(p, ordered))

list_players(proc) ==
    Bind(run(proc), LAMBDA out :
        IF out = <<>> THEN <<>>
        ELSE Bind(SplitLines(out), LAMBDA players :
                 Bind(Ordered(POLL_PLAYERS, players), LAMBDA ordered :
                     ordered \o Rest(players, ordered))))

(***************************************************************************)
(* Player identifiers the discovery query is given in the model.           *)
(***************************************************************************)
GoogleChrome == <<"g","o","o","g","l","e","-","c","h","r","o","m","e">>
Chrome == <<"c","h","r","o","m","e",".","1">>
Firefox == <<"F","i","r","e","f","o","x">>
Spotify == <<"s","p","o","t","i","f","y">>
Vlc == <<"v","l","c">>

PlayerPool == {GoogleChrome, Chrome, Firefox, Spotify, Vlc}

\* what `playerctl -l` prints for the players l: one per line
ListOutput(l) == Output(Join(l, "\n") \o <<"\n">>)

PlayerProcs == {Failed} \cup {ListOutput(l) : l \in SeqsUpTo(PlayerPool, MaxPlayers)}

(***************************************************************************)
(* SpecPlayers: list_players applied to every bounded output of the query. *)
(***************************************************************************)
InitPlayers ==
    /\ now = 1
    /\ apiKey = FALSE
    /\ ttl = <<>>
    /\ cache = <<>>
    /\ hist = <<>>
    /\ env \in {[kind |-> "players", proc |-> p] : p \in PlayerProcs}
    /\ op = [name |-> "init"]

ListPlayers ==
    /\ op.name = "init"
    /\ env.kind = "players"
    /\ op' = [name |-> "list_players",
              players |-> SplitLines(run(env.proc)),
              out |-> list_players(env.proc)]
    /\ UNCHANGED <<now, apiKey, ttl, cache, env, hist>>

NextPlayers == ListPlayers

SpecPlayers == InitPlayers /\ [][NextPlayers]_vars

Count(x, s) == Cardinality({i \in 1..Len(s) : s[i] = x})

\* C1: the output of list_players is a permutation of the players the query
\* returned: every player occurs in the output as often as in the input.
C1_Permutation ==
    op.name = "list_players" =>
        \A p \in PlayerPool : Count(p, op.out) = Count(p, op.players)

\* the preference rank of a player: the first POLL_PLAYERS entry its
\* lower-cased identifier contains, or one past the last when it has none
PrefRank(p) ==
    IF \E i \in 1..Len(POLL_PLAYERS) : Contains(Lower(p), POLL_PLAYERS[i])
    THEN CHOOSE i \in 1..Len(POLL_PLAYERS) :
             /\ Contains(Lower(p), POLL_PLAYERS[i])
             /\ \A j \in 1..(i - 1) : ~Contains(Lower(p), POLL_PLAYERS[j])
    ELSE Len(POLL_PLAYERS) + 1

\* C7: in the output of list_players no player of an earlier preference rank
\* comes after a player of a later rank or after an unmatched player, and two
\* players of the same rank stand in the order they have in the input.
C7_PreferenceOrder ==
    op.name = "list_players" =>
        /\ \A i, j \in 1..Len(op.out) :
               i < j => PrefRank(op.out[i]) <= PrefRank(op.out[j])
        /\ \A i, j \in 1..Len(op.out) :
               (i < j /\ op.out[i] # op.out[j]
                      /\ PrefRank(op.out[i]) = PrefRank(op.out[j]))
               => \E a, b \in 1..Len(op.players) :
                      a < b /\ op.players[a] = op.out[i] /\ op.players[b] = op.out[j]

(***************************************************************************)
(* _lastfm_cover: the lookup behind the memo. The HTTP response is an      *)
(* input: resp.ok is FALSE when requests.get or r.json() raises. An image  *)
(* is [size, text]; a missing or empty "#text" is the empty text, a        *)
(* missing "size" is the size "".                                          *)
(***************************************************************************)
NoneV == [some |-> FALSE, v |-> <<>>]
Some(u) == [some |-> TRUE, v |-> u]

\* x or ""
OrEmpty(x) == IF x.some THEN x.v ELSE <<>>

SIZES == <<"extralarge", "mega", "large", "medium">>

\* for img in images: if img.get("size") == size and img.get("#text"): return
RECURSIVE FirstOfSize(_, _)
FirstOfSize(images, size) ==
    IF images = <<>> THEN NoneV
    ELSE IF Head(images).size = size /\ Head(images).text # <<>>
         THEN Some(Head(images).text)
         ELSE FirstOfSize(Tail(images), size)

\* for size in ["extralarge", "mega", "large", "medium"]: ...
RECURSIVE TryLargest(_, _)
TryLargest(sizes, images) ==
    IF sizes = <<>> THEN NoneV
    ELSE LET hit == FirstOfSize(images, Head(sizes)) IN
         IF hit.some THEN hit ELSE TryLargest(Tail(sizes), images)

\* fallback: for img in images: if img.get("#text"): return img["#text"]
RECURSIVE FirstWithUrl(_)
FirstWithUrl(images) ==
    IF images = <<>> THEN NoneV
    ELSE IF Head(images).text # <<>> THEN Some(Head(images).text)
         ELSE FirstWithUrl(Tail(images))

\* images = data["track"]["album"]["image"] or data["track"]["image"] or None
ImagesOf(resp) ==
    IF resp.hasTrack
    THEN IF resp.hasAlbum /\ resp.hasAlbumImage THEN Some(resp.albumImage)
         ELSE IF resp.hasTrackImage THEN Some(resp.trackImage)
         ELSE NoneV
    ELSE NoneV

\* faulty variant: the first entry with a URL, whatever its size
PickImage_listOrder(images) ==
    IF images.some /\ images.v # <<>> THEN FirstWithUrl(images.v) ELSE NoneV

PickImage(images) ==
    IF images.some /\ images.v # <<>>
    THEN LET hit == TryLargest(SIZES, images.v) IN
         IF hit.some THEN hit ELSE FirstWithUrl(images.v)
    ELSE NoneV

\* faulty variant: the credential is not consulted before the request
_lastfm_cover_nokey(key, resp) ==
    IF ~resp.ok THEN [result |-> NoneV, net |-> 1]
    ELSE [result |-> PickImage(ImagesOf(resp)), net |-> 1]

\* the value returned, and the number of network requests issued
_lastfm_cover(key, resp) ==
    IF ~key THEN [result |-> NoneV, net |-> 0]
    ELSE IF ~resp.ok THEN [result |-> NoneV, net |-> 1]
    ELSE [result |-> PickImage(ImagesOf(resp)), net |-> 1]

(***************************************************************************)
(* Catalog responses the lookup is given in the model.                     *)
(***************************************************************************)
U1 == <<"u","1">>
U2 == <<"u","2">>
U3 == <<"u","3">>

ImagePool == [size : {"small", "medium", "large", "extralarge", "mega"},
              text : {<<>>, U1, U2}]

ImageLists == SeqsUpTo(ImagePool, MaxImages)

Response(t, a, ai, al, ti, tl) ==
    [ok |-> TRUE, hasTrack |-> t, hasAlbum |-> a, hasAlbumImage |-> ai,
     albumImage |-> al, hasTrackImage |-> ti, trackImage |-> tl]

HttpFailure ==
    [ok |-> FALSE, hasTrack |-> FALSE, hasAlbum |-> FALSE, hasAlbumImage |-> FALSE,
     albumImage |-> <<>>, hasTrackImage |-> FALSE, trackImage |-> <<>>]

TrackOnly == <<[size |-> "mega", text |-> U3]>>

Responses ==
    {HttpFailure,
     Response(FALSE, FALSE, FALSE, <<>>, FALSE, <<>>),
     Response(TRUE, FALSE, FALSE, <<>>, FALSE, <<>>)}
    \cup {Response(TRUE, TRUE, TRUE, l, FALSE, <<>>) : l \in ImageLists}
    \cup {Response(TRUE, TRUE, TRUE, l, TRUE, TrackOnly) : l \in ImageLists}
    \cup {Response(TRUE, TRUE, FALSE, <<>>, TRUE, l) : l \in ImageLists}
    \cup {Response(TRUE, FALSE, FALSE, <<>>, TRUE, l) : l \in ImageLists}

(***************************************************************************)
(* SpecImages: _lastfm_cover applied to every bounded response.            *)
(***************************************************************************)
InitImages ==
    /\ now = 1
    /\ apiKey \in BOOLEAN
    /\ ttl = <<>>
    /\ cache = <<>>
    /\ hist = <<>>
    /\ env \in {[kind |-> "images", resp |-> r] : r \in Responses}
    /\ op = [name |-> "init"]

LookupCover ==
    /\ op.name = "init"
    /\ env.kind = "images"
    /\ LET r == _lastfm_cover(apiKey, env.resp) IN
       op' = [name |-> "_lastfm_cover", resp |-> env.resp,
              result |-> r.result, net |-> r.net]
    /\ UNCHANGED <<now, apiKey, ttl, cache, env, hist>>

NextImages == LookupCover

SpecImages == InitImages /\ [][NextImages]_vars

\* the list the claim says is used: the album's when present, else the track's
C8_List(resp) ==
    IF resp.hasTrack /\ resp.hasAlbum /\ resp.hasAlbumImage THEN resp.albumImage
    ELSE IF resp.hasTrack /\ resp.hasTrackImage THEN resp.trackImage
    ELSE <<>>

C8_SizeRank(size) ==
    CASE size = "extralarge" -> 1
      [] size = "mega" -> 2
      [] size = "large" -> 3
      [] size = "medium" -> 4
      [] OTHER -> 5

C8_Expected(l) ==
    LET withUrl == {i \in 1..Len(l) : l[i].text # <<>>}
        preferred == {i \in withUrl : C8_SizeRank(l[i].size) <= 4}
    IN  IF preferred # {}
        THEN Some(l[CHOOSE i \in preferred :
                        \A j \in preferred :
                            \/ C8_SizeRank(l[i].size) < C8_SizeRank(l[j].size)
                            \/ /\ C8_SizeRank(l[i].size) = C8_SizeRank(l[j].size)
                               /\ i <= j].text)
        ELSE IF withUrl # {}
        THEN Some(l[CHOOSE i \in withUrl : \A j \in withUrl : i <= j].text)
        ELSE NoneV

\* C8: from the album-level list when present, else the track-level list,
\* _lastfm_cover returns the URL of the first entry with a URL of the best
\* size among extralarge, mega, large, medium whatever the list order; with
\* no such entry, the first entry with a URL; with none, absence.
C8_SizePreference ==
    (op.name = "_lastfm_cover" /\ apiKey /\ op.resp.ok) =>
        op.result = C8_Expected(C8_List(op.resp))

\* the scenario of the spec: [small, large] gives the large entry's URL
C8_Witness ==
    /\ op.name = "_lastfm_cover" /\ apiKey /\ op.resp.ok
    /\ op.resp.hasAlbumImage /\ ~op.resp.hasTrackImage
    /\ Len(op.resp.albumImage) = 2
    /\ op.resp.albumImage[1] = [size |-> "small", text |-> U1]
    /\ op.resp.albumImage[2] = [size |-> "large", text |-> U2]
    /\ op.result = Some(U2)

(***************************************************************************)
(* lastfm_cover: the expiry map _last_cover_ttl (ttl) and the lru_cache    *)
(* memo of _lastfm_cover_cached (cache, least recently used first). A memo *)
(* entry is [artist, track, val]; its field `at` is a history field, the   *)
(* time of the lookup that produced val.                                   *)
(***************************************************************************)
\* f"{artist.lower()}|{track.lower()}"
Key(artist, track) == Lower(artist) \o <<"|">> \o Lower(track)

\* _last_cover_ttl.get(key, 0)
Expiry(t, key) == IF key \in DOMAIN t THEN t[key] ELSE 0

\* faulty variant: a call made exactly at the stored expiry counts as expired
Expired_AtExpiry(t, exp) == t >= exp

\* now > exp
Expired(t, exp) == t > exp

\* _last_cover_ttl[key] = now + 60 * 60
SetExpiry(t, key, time) ==
    [k \in DOMAIN t \cup {key} |-> IF k = key THEN time + TTL ELSE t[k]]

\* faulty variant: the expiry is renewed but the memo is left as it is
cache_clear_noop(c) == c

\* _lastfm_cover_cached.cache_clear()
cache_clear(c) == <<>>

\* faulty variant: the memo never hits
HitIndex_miss(c, artist, track) == {}

HitIndex(c, artist, track) ==
    {i \in 1..Len(c) : c[i].artist = artist /\ c[i].track = track}

\* lru_cache(maxsize=256): the entry added last, the least recent one evicted
Insert(c, e) ==
    IF Len(c) + 1 > MAXSIZE THEN Tail(c) \o <<e>> ELSE c \o <<e>>

\* _lastfm_cover_cached(artist, track): a hit moves the entry to the most
\* recent end, a miss calls _lastfm_cover and stores what it returns
_lastfm_cover_cached(c, key, artist, track, resp, time) ==
    LET hits == HitIndex(c, artist, track) IN
    IF hits # {}
    THEN LET i == CHOOSE k \in hits : TRUE
             rest == SubSeq(c, 1, i - 1) \o SubSeq(c, i + 1, Len(c))
         IN  [cache |-> rest \o <<c[i]>>, result |-> c[i].val,
              lookups |-> 0, net |-> 0, at |-> c[i].at, evicted |-> FALSE]
    ELSE Bind(_lastfm_cover(key, resp), LAMBDA r :
             [cache |-> Insert(c, [artist |-> artist, track |-> track,
                                   val |-> r.result, at |-> time]),
              result |-> r.result,
              lookups |-> 1, net |-> r.net, at |-> time,
              evicted |-> Len(c) + 1 > MAXSIZE])

\* lastfm_cover(artist, track) at clock value `time`
lastfm_cover(t, c, key, artist, track, resp, time) ==
    Bind(Key(artist, track), LAMBDA k :
    Bind(Expiry(t, k), LAMBDA exp :
    Bind(Expired(time, exp), LAMBDA stale :
    Bind(_lastfm_cover_cached(IF stale THEN cache_clear(c) ELSE c,
                              key, artist, track, resp, time), LAMBDA r :
        [ttl |-> IF stale THEN SetExpiry(t, k, time) ELSE t,
         cache |-> r.cache, result |-> r.result,
         clears |-> IF stale THEN 1 ELSE 0, lookups |-> r.lookups, net |-> r.net,
         at |-> r.at, evicted |-> r.evicted, key |-> k, expBefore |-> exp,
         seen |-> k \in DOMAIN t, memoBefore |-> Len(c)]))))

(***************************************************************************)
(* Inputs of the cover resolver in the model.                              *)
(***************************************************************************)
Artists == {<<"A">>, <<"a">>, <<"B">>}
Tracks == {<<"T">>}

Pairs == Artists \X Tracks

LookupResponses ==
    {HttpFailure,
     Response(TRUE, TRUE, TRUE,
              <<[size |-> "small", text |-> U1], [size |-> "mega", text |-> U2]>>,
              FALSE, <<>>)}

\* time() steps of the injected clock
TickSteps == {TTL \div 2, TTL \div 2 + 1}

(***************************************************************************)
(* History of the calls: for each (artist, track) the result of its last   *)
(* call, the expiry stored for its key after that call, and whether the    *)
(* memo has been left alone since (no clear, no eviction of the pair).     *)
(***************************************************************************)
Remember(h, call, artist, track) ==
    [p \in DOMAIN h \cup {<<artist, track>>} |->
        IF p = <<artist, track>>
        THEN [result |-> call.result, exp |-> call.ttl[call.key], intact |-> TRUE]
        ELSE [h[p] EXCEPT !.intact = @ /\ call.clears = 0 /\ ~call.evicted]]

Observed(call, h, artist, track, time) ==
    [name |-> "lastfm_cover", artist |-> artist, track |-> track, now |-> time,
     key |-> call.key, seen |-> call.seen, expBefore |-> call.expBefore,
     memoBefore |-> call.memoBefore, clears |-> call.clears,
     lookups |-> call.lookups, net |-> call.net, result |-> call.result,
     at |-> call.at,
     hadPrev |-> <<artist, track>> \in DOMAIN h,
     prev |-> IF <<artist, track>> \in DOMAIN h THEN h[<<artist, track>>]
              ELSE [result |-> NoneV, exp |-> 0, intact |-> FALSE]]

(***************************************************************************)
(* Spec: the cover resolver under an injected, non-decreasing clock.       *)
(***************************************************************************)
Init ==
    /\ now = 1
    /\ apiKey \in BOOLEAN
    /\ ttl = <<>>
    /\ cache = <<>>
    /\ hist = <<>>
    /\ env = [kind |-> "cover"]
    /\ op = [name |-> "init"]

Tick ==
    /\ \E d \in TickSteps :
           /\ now + d <= MaxTime
           /\ now' = now + d
    /\ UNCHANGED <<apiKey, ttl, cache, env, op, hist>>

CallLastfmCover ==
    /\ env.kind = "cover"
    /\ \E p \in Pairs, resp \in LookupResponses :
         \E call \in {lastfm_cover(ttl, cache, apiKey, p[1], p[2], resp, now)} :
           /\ ttl' = call.ttl
           /\ cache' = call.cache
           /\ hist' = Remember(hist, call, p[1], p[2])
           /\ op' = Observed(call, hist, p[1], p[2], now)
    /\ UNCHANGED <<now, apiKey, env>>

Next == Tick \/ CallLastfmCover

Spec == Init /\ [][Next]_vars

\* C2 as claimed: a second call for the same (artist, track) made no later
\* than the expiry stored for its key by the first returns the first's result
\* without a second lookup, whatever calls happen in between.
C2_MemoWithinExpiry ==
    (op.name = "lastfm_cover" /\ apiKey /\ op.hadPrev /\ op.now <= op.prev.exp) =>
        (op.result = op.prev.result /\ op.lookups = 0)

\* C2 as amended: the same, provided no call in between cleared the memo
\* table (none was for a key unseen or past its expiry) or evicted the pair.
C2_MemoWhileIntact ==
    (op.name = "lastfm_cover" /\ apiKey /\ op.hadPrev /\ op.now <= op.prev.exp
        /\ op.prev.intact) =>
        (op.result = op.prev.result /\ op.lookups = 0 /\ op.net = 0)

\* a memoized URL served again after a call for another pair of the same key
C2_Witness ==
    /\ op.name = "lastfm_cover" /\ apiKey /\ op.hadPrev /\ op.prev.intact
    /\ op.now <= op.prev.exp /\ op.now > 1
    /\ op.memoBefore >= 2
    /\ op.result.some /\ op.lookups = 0

\* C3: a call for a key never seen, or whose stored expiry is earlier than
\* now, clears the whole memo once, stores now + 3600 for the key and looks
\* the pair up once; a call at or before the stored expiry clears nothing.
C3_ExpiredKeyClears ==
    op.name = "lastfm_cover" =>
        IF ~op.seen \/ op.expBefore < op.now
        THEN /\ op.clears = 1
             /\ ttl[op.key] = op.now + 3600
             /\ op.lookups = 1
             /\ cache = <<[artist |-> op.artist, track |-> op.track,
                           val |-> op.result, at |-> op.now]>>
        ELSE /\ op.clears = 0
             /\ ttl[op.key] = op.expBefore

\* a seen key past its expiry, with two entries in the memo before the call
C3_Witness ==
    /\ op.name = "lastfm_cover" /\ op.seen /\ op.expBefore < op.now
    /\ op.memoBefore >= 2 /\ op.clears = 1 /\ Len(cache) = 1

\* C9: without a credential every lastfm_cover call returns absence and no
\* network request is issued.
C9_NoCredential ==
    ~apiKey =>
        /\ op.name = "lastfm_cover" => (op.result = NoneV /\ op.net = 0)
        /\ \A i \in 1..Len(cache) : cache[i].val = NoneV

\* a call without credential that reached the underlying lookup
C9_Witness ==
    ~apiKey /\ op.name = "lastfm_cover" /\ op.lookups = 1 /\ op.result = NoneV

\* C10: every value lastfm_cover returns was produced by a lookup made at
\* most 3600 seconds before the call that returns it.
C10_BoundedStaleness ==
    op.name = "lastfm_cover" => (op.at <= op.now /\ op.now - op.at <= 3600)

\* a memoized value served exactly 3600 seconds after its lookup
C10_Witness ==
    op.name = "lastfm_cover" /\ op.lookups = 0 /\ op.now - op.at = 3600

(***************************************************************************)
(* The player poller: player_status and player_metadata. Numbers are kept  *)
(* as decimal texts (sequences of digits), so that a length of hundreds of *)
(* digits is a value of the model like any other.                          *)
(***************************************************************************)
DIGITS == {"0","1","2","3","4","5","6","7","8","9"}

DigitValue(c) ==
    CASE c = "0" -> 0 [] c = "1" -> 1 [] c = "2" -> 2 [] c = "3" -> 3
      [] c = "4" -> 4 [] c = "5" -> 5 [] c = "6" -> 6 [] c = "7" -> 7
      [] c = "8" -> 8 [] c = "9" -> 9

IsDigits(s) == s # <<>> /\ \A i \in 1..Len(s) : s[i] \in DIGITS

RECURSIVE DropZeros(_)
DropZeros(s) ==
    IF Len(s) > 1 /\ Head(s) = "0" THEN DropZeros(Tail(s)) ELSE s

\* int(s): the digits of the value, or a ValueError. int() strips blanks;
\* signs and underscores are not among the inputs of the model.
IntParse(s) ==
    Bind(Strip(s), LAMBDA t :
        IF IsDigits(t) THEN [ok |-> TRUE, digits |-> DropZeros(t)]
        ELSE [ok |-> FALSE, digits |-> <<"0">>])

\* float(s) for a plain decimal text: digits with at most one point; any
\* other text is a ValueError (exponents, inf and nan are not among the inputs)
FloatParse(s) ==
    Bind(Strip(s), LAMBDA t :
        IF /\ t # <<>>
           /\ \A i \in 1..Len(t) : t[i] \in DIGITS \cup {"."}
           /\ Cardinality({i \in 1..Len(t) : t[i] = "."}) <= 1
           /\ \E i \in 1..Len(t) : t[i] \in DIGITS
        THEN [ok |-> TRUE, text |-> t]
        ELSE [ok |-> FALSE, text |-> <<"0">>])

\* the least integer n for which n / 1000000 raises OverflowError: the
\* quotient rounds to 2^1024, that is n >= (2^1024 - 2^970) * 10^6
DivThreshold ==
    <<"1","7","9","7","6","9","3","1","3","4","8","6","2","3","1","5","8","0","7","9","3",
       "7","2","8","9","7","1","4","0","5","3","0","3","4","1","5","0","7","9","9","3","4",
       "1","3","2","7","1","0","0","3","7","8","2","6","9","3","6","1","7","3","7","7","8",
       "9","8","0","4","4","4","9","6","8","2","9","2","7","6","4","7","5","0","9","4","6",
       "6","4","9","0","1","7","9","7","7","5","8","7","2","0","7","0","9","6","3","3","0",
       "2","8","6","4","1","6","6","9","2","8","8","7","9","1","0","9","4","6","5","5","5",
       "5","4","7","8","5","1","9","4","0","4","0","2","6","3","0","6","5","7","4","8","8",
       "6","7","1","5","0","5","8","2","0","6","8","1","9","0","8","9","0","2","0","0","0",
       "7","0","8","3","8","3","6","7","6","2","7","3","8","5","4","8","4","5","8","1","7",
       "7","1","1","5","3","1","7","6","4","4","7","5","7","3","0","2","7","0","0","6","9",
       "8","5","5","5","7","1","3","6","6","9","5","9","6","2","2","8","4","2","9","1","4",
       "8","1","9","8","6","0","8","3","4","9","3","6","4","7","5","2","9","2","7","1","9",
       "0","7","4","1","6","8","4","4","4","3","6","5","5","1","0","7","0","4","3","4","2",
       "7","1","1","5","5","9","6","9","9","5","0","8","0","9","3","0","4","2","8","8","0",
       "1","7","7","9","0","4","1","7","4","4","9","7","7","9","2","0","0","0","0","0","0">>

\* a >= b for two digit texts without leading zeros
DigitsGE(a, b) ==
    \/ Len(a) > Len(b)
    \/ /\ Len(a) = Len(b)
       /\ \/ a = b
          \/ \E i \in 1..Len(a) :
                 /\ DigitValue(a[i]) > DigitValue(b[i])
                 /\ \A j \in 1..(i - 1) : a[j] = b[j]

\* int(length) / 1000000 raises "integer division result too large for a float"
DivOverflows(digits) == DigitsGE(digits, DivThreshold)

Zero == [num |-> <<"0">>, den |-> 1]

\* length_seconds: 0, or int(length) / 1000000 kept as a fraction; `raised`
\* when the OverflowError, which `except ValueError` does not catch, escapes
LengthSeconds(length) ==
    IF length = <<>> THEN [raised |-> FALSE, value |-> Zero]
    ELSE Bind(IntParse(length), LAMBDA n :
             IF ~n.ok THEN [raised |-> FALSE, value |-> Zero]
             ELSE IF DivOverflows(n.digits) THEN [raised |-> TRUE, value |-> Zero]
             ELSE [raised |-> FALSE, value |-> [num |-> n.digits, den |-> MICRO]])

\* position: float(position_raw) if position_raw else 0, 0 on ValueError
Position(raw) ==
    IF raw = <<>> THEN <<"0">>
    ELSE Bind(FloatParse(raw), LAMBDA f : IF f.ok THEN f.text ELSE <<"0">>)

\* player_status(player)
player_status(proc) == run(proc)

\* (raw.split("|") + ["", "", "", "", ""])[:5]
Fields(raw) == SubSeq(Split(raw, "|") \o << <<>>, <<>>, <<>>, <<>>, <<>> >>, 1, 5)

NoMeta ==
    [raised |-> FALSE, empty |-> TRUE, title |-> <<>>, artist |-> <<>>,
     album |-> <<>>, artUrl |-> <<>>, player |-> <<>>, position |-> <<"0">>,
     length |-> Zero]

\* player_metadata(player): {} (empty), the dict, or the escaping exception
player_metadata(metaProc, posProc, player) ==
    Bind(run(metaProc), LAMBDA raw :
        IF raw = <<>> \/ ~Contains(raw, <<"|">>) THEN NoMeta
        ELSE Bind(Fields(raw), LAMBDA f :
                 Bind(LengthSeconds(f[5]), LAMBDA len :
                     IF len.raised
                     THEN [NoMeta EXCEPT !.raised = TRUE, !.empty = FALSE]
                     ELSE [raised |-> FALSE, empty |-> FALSE,
                           title |-> Strip(f[1]), artist |-> Strip(f[2]),
                           album |-> Strip(f[3]), artUrl |-> Strip(f[4]),
                           player |-> player,
                           position |-> Position(run(posProc)),
                           length |-> len.value])))

(***************************************************************************)
(* get_now_playing. The environment e gives the outcome of every           *)
(* subprocess (e.list for `playerctl -l`, e.player[p] for the status, the  *)
(* metadata and the position of player p) and the set e.files of paths     *)
(* that exist on disk.                                                     *)
(***************************************************************************)
PLAYING == <<"p","l","a","y","i","n","g">>
FILE_SCHEME == <<"f","i","l","e",":","/","/">>

\* faulty variant: the local file is taken to exist without looking
PathExists_always(files, path) == TRUE

\* os.path.exists(file_path)
PathExists(files, path) == path \in files

\* cover[7:]
FilePath(cover) == SubSeq(cover, PREFIX_LEN + 1, Len(cover))

NoLookup ==
    [called |-> FALSE, artist |-> <<>>, track |-> <<>>, result |-> NoneV,
     net |-> 0, lookups |-> 0, clears |-> 0]

Lookup(t, c, key, artist, title, resp, time) ==
    Bind(lastfm_cover(t, c, key, artist, title, resp, time), LAMBDA call :
    [cover |-> OrEmpty(call.result), ttl |-> call.ttl, cache |-> call.cache,
     lookup |-> [called |-> TRUE, artist |-> artist, track |-> title,
                 result |-> call.result, net |-> call.net,
                 lookups |-> call.lookups, clears |-> call.clears]])

\* lines 132-144: the cover of the selected player
ResolveCover(meta, files, t, c, key, resp, time) ==
    LET title == meta.title
        artist == meta.artist
        cover == meta.artUrl
        keep == [cover |-> cover, ttl |-> t, cache |-> c, lookup |-> NoLookup]
    IN  IF cover = <<>> /\ title # <<>> /\ artist # <<>>
        THEN Lookup(t, c, key, artist, title, resp, time)
        ELSE IF cover # <<>> /\ StartsWith(cover, FILE_SCHEME)
        THEN IF ~PathExists(files, FilePath(cover)) /\ title # <<>> /\ artist # <<>>
             THEN Lookup(t, c, key, artist, title, resp, time)
             ELSE keep
        ELSE keep

Stopped == [status |-> "stopped"]

\* lines 145-154: the result returned for player p with metadata meta
Playing(p, meta, r) ==
    [raised |-> FALSE,
     result |-> [status |-> "playing",
                 title |-> meta.title,
                 artist |-> meta.artist,
                 album |-> meta.album,
                 cover |-> r.cover,
                 source |-> IF meta.player # <<>> THEN meta.player ELSE p,
                 position |-> meta.position,
                 length |-> meta.length],
     ttl |-> r.ttl, cache |-> r.cache, lookup |-> r.lookup, meta |-> meta]

\* for p in players: ...
RECURSIVE Walk(_, _, _, _, _, _, _)
Walk(players, e, t, c, key, resp, time) ==
    IF players = <<>>
    THEN [raised |-> FALSE, result |-> Stopped, ttl |-> t, cache |-> c,
          lookup |-> NoLookup, meta |-> NoMeta]
    ELSE LET p == Head(players)
             status == Lower(player_status(e.player[p].status))
         IN  IF status = PLAYING
             THEN Bind(player_metadata(e.player[p].meta, e.player[p].pos, p),
                       LAMBDA meta :
                  IF meta.raised
                  THEN [raised |-> TRUE, result |-> <<>>, ttl |-> t, cache |-> c,
                        lookup |-> NoLookup, meta |-> meta]
                  ELSE IF meta.empty
                  THEN Walk(Tail(players), e, t, c, key, resp, time)
                  ELSE Bind(ResolveCover(meta, e.files, t, c, key, resp, time),
                            LAMBDA r : Playing(p, meta, r)))
             ELSE Walk(Tail(players), e, t, c, key, resp, time)

get_now_playing(e, t, c, key, resp, time) ==
    Walk(list_players(e.list), e, t, c, key, resp, time)

(***************************************************************************)
(* Environments get_now_playing is given in the model.                     *)
(***************************************************************************)
Line(s) == Output(s \o <<"\n">>)
MetaOutput(fields) == Line(Join(fields, "|"))

Str_T == <<"T">>
Str_A == <<"A">>
Str_L == <<"L">>
Str_Http == <<"h","t","t","p",":","/","/","i">>
Str_File == <<"f","i","l","e",":","/","/","/","m">>
Str_Path == <<"/","m">>
Str_Playing == <<"P","l","a","y","i","n","g">>
Str_PLAYING == <<"P","L","A","Y","I","N","G">>
Str_Paused == <<"P","a","u","s","e","d">>
Str_Pos == <<"1","2",".","5">>

\* a 1 followed by 400 zeros
HugeLength == <<"1">> \o [i \in 1..400 |-> "0"]

Behaviour(status, meta, pos) == [status |-> status, meta |-> meta, pos |-> pos]

\* what the preferred player (polled first) does
FirstBehaviours ==
    {Behaviour(Line(Str_Paused), Failed, Failed),
     Behaviour(Failed, Failed, Failed),
     Behaviour(Line(Str_Playing), Line(<<"x">>), Failed),
     Behaviour(Line(Str_Playing),
               MetaOutput(<<Str_T, Str_A, <<>>, Str_Http, <<"5">>>>), Line(Str_Pos))}

\* what the other player does
SecondBehaviours ==
    {Behaviour(Line(Str_Paused), Failed, Failed),
     Behaviour(Failed, Failed, Failed),
     Behaviour(Line(Str_Playing), Failed, Failed),
     Behaviour(Line(Str_Playing), Line(<<"x">>), Failed),
     Behaviour(Line(Str_PLAYING),
               MetaOutput(<<Str_T, Str_A, Str_L, <<>>, <<"2","0","0","0","0","0","0">>>>),
               Line(Str_Pos)),
     Behaviour(Line(Str_Playing),
               MetaOutput(<<<<" ">> \o Str_T, Str_A \o <<" ">>, Str_L, Str_Http, <<"x">>>>),
               Line(<<"x">>)),
     Behaviour(Line(Str_Playing),
               MetaOutput(<<Str_T, Str_A, Str_L, Str_File, <<>>>>), Failed),
     Behaviour(Line(Str_Playing),
               MetaOutput(<<<<>>, Str_A, <<>>, Str_File>>), Line(Str_Pos)),
     Behaviour(Line(Str_Playing),
               MetaOutput(<<Str_T, <<>>, Str_L, <<>>>>), Line(Str_Pos)),
     Behaviour(Line(Str_Playing),
               MetaOutput(<<Str_T, Str_A, Str_L, <<>>, HugeLength>>), Line(Str_Pos))}

PolledPool == {GoogleChrome, Spotify}

Environments ==
    {[kind |-> "now", list |-> l,
      player |-> [p \in PolledPool |-> IF p = GoogleChrome THEN b1 ELSE b2],
      files |-> f] :
        l \in {Failed} \cup {ListOutput(q) : q \in SeqsUpTo(PolledPool, MaxPolled)},
        b1 \in FirstBehaviours, b2 \in SecondBehaviours,
        f \in {{}, {Str_Path}}}

(***************************************************************************)
(* SpecNow: get_now_playing polled again and again in one environment.     *)
(***************************************************************************)
InitNow ==
    /\ now = 1
    /\ apiKey \in BOOLEAN
    /\ ttl = <<>>
    /\ cache = <<>>
    /\ hist = <<>>
    /\ env \in Environments
    /\ op = [name |-> "init"]

GetNowPlaying ==
    /\ env.kind = "now"
    /\ \E resp \in LookupResponses :
         \E r \in {get_now_playing(env, ttl, cache, apiKey, resp, now)} :
           /\ ttl' = r.ttl
           /\ cache' = r.cache
           /\ op' = [name |-> "get_now_playing", raised |-> r.raised,
                     result |-> r.result, players |-> list_players(env.list),
                     meta |-> r.meta, lookup |-> r.lookup]
    /\ UNCHANGED <<now, apiKey, env, hist>>

NextNow == Tick \/ GetNowPlaying

SpecNow == InitNow /\ [][NextNow]_vars

\* player p reports playing (in any letter case) and its metadata output is
\* not empty and holds the delimiter
C4_Qualifies(p) ==
    /\ Lower(run(env.player[p].status)) = PLAYING
    /\ run(env.player[p].meta) # <<>>
    /\ Contains(run(env.player[p].meta), <<"|">>)

\* C4: get_now_playing returns a playing result whose source is the first
\* player, in list_players order, that reports playing and has metadata, and
\* returns {status: stopped} exactly when there is no such player.
C4_FirstPlaying ==
    op.name = "get_now_playing" =>
        LET q == {i \in 1..Len(op.players) : C4_Qualifies(op.players[i])} IN
        IF q = {}
        THEN ~op.raised /\ op.result = Stopped
        ELSE /\ ~op.raised
             /\ op.result.status = "playing"
             /\ op.result.source = op.players[CHOOSE i \in q : \A j \in q : i <= j]

\* C5: the cover of a playing result is the looked-up cover of (artist,
\* title), or "" when the lookup gives none, exactly when title and artist are
\* both non-empty and the metadata cover is empty or is a file:// reference
\* to a path that does not exist; otherwise nothing is looked up and the cover
\* is the metadata cover unchanged.
C5_CoverPolicy ==
    (op.name = "get_now_playing" /\ ~op.raised /\ op.result.status = "playing") =>
        LET m == op.meta
            missing == /\ Len(m.artUrl) >= 7
                       /\ SubSeq(m.artUrl, 1, 7) = <<"f","i","l","e",":","/","/">>
                       /\ SubSeq(m.artUrl, 8, Len(m.artUrl)) \notin env.files
            needed == m.title # <<>> /\ m.artist # <<>> /\ (m.artUrl = <<>> \/ missing)
        IN  IF needed
            THEN /\ op.lookup.called
                 /\ op.lookup.artist = m.artist /\ op.lookup.track = m.title
                 /\ op.result.cover =
                        (IF op.lookup.result.some THEN op.lookup.result.v ELSE <<>>)
            ELSE /\ ~op.lookup.called
                 /\ op.result.cover = m.artUrl

\* the scenario of the spec: a file:// cover whose path is absent, title and
\* artist present, and the cover replaced by the looked-up URL
C5_Witness ==
    /\ op.name = "get_now_playing" /\ ~op.raised /\ op.result.status = "playing"
    /\ op.meta.artUrl = Str_File /\ Str_Path \notin env.files
    /\ op.lookup.called /\ op.result.cover = U2

\* C6: get_now_playing never raises, and returns either {status: stopped}
\* alone or a playing result with all eight fields.
C6_Total ==
    op.name = "get_now_playing" =>
        /\ ~op.raised
        /\ \/ op.result = Stopped
           \/ /\ DOMAIN op.result = {"status", "title", "artist", "album", "cover",
                                     "source", "position", "length"}
              /\ op.result.status = "playing"

====
